---- MODULE Spec2Model ----
(***************************************************************************)
(* Flash sale purchase pipeline: the Redis Lua primitives, the             *)
(* FlashSaleService.attemptPurchase orchestrator, the Kafka attempt topic,  *)
(* the worker's processFlashSaleAttempt and the orders table.               *)
(*                                                                         *)
(* One sale (SaleId) of one product (ProductId) exists in flash_sales.      *)
(* Every await of the TypeScript code is a separate step; a Lua script is   *)
(* one step (Redis runs it without interleaving).                           *)
(* Not modelled: expiry of the result keys (TTL 86400 s) and eviction of    *)
(* Redis keys; Redis command failures (the client retries indefinitely,     *)
(* maxRetriesPerRequest = null).                                            *)
(***************************************************************************)
EXTENDS Integers, Sequences, FiniteSets, TLC

\* ------------------------------------------------------------------ bounds
NumUsers == 2
MaxReqs == 2
OrchCalls == 3
OrchMaxStock == 2
MaxUnparseable == 1
MaxReads == 2
NumWorkers == 2
MaxDeliveries == 2
MaxStock == 1
MaxCalls == 4
PrimMaxStock == 2
NumPrimUsers == 3

Users == 1..NumUsers
Reqs == 1..OrchCalls
Workers == 1..NumWorkers
PrimUsers == 1..NumPrimUsers

\* ------------------------------------------------- the seeded sale (data)
SaleId == 1
ProductId == 1
StartAt == 1
EndAt == 2
Times == 0..3
SaleIds == {SaleId, SaleId + 1}

\* --------------------------------------------------------------- messages
MsgNotFound == "Flash sale with ID not found."
MsgNotStarted == "Flash sale is not yet active. Start time: "
MsgEnded == "Flash sale has ended. End time: "
MsgSecured == "You have successfully secured an item!"
MsgUnsuccessful == "Your purchase attempt was unsuccessful."
MsgProcessing == "Your purchase attempt is being processed. Please check back shortly."
MsgOutOfStock == "Sorry, the item is out of stock."
MsgRetry == "Failed to process your request. Please try again."
MsgAccepted == "Your purchase attempt has been received and is being processed."
MsgInternal == "Failed to process purchase attempt"
NoResp == [success |-> FALSE, message |-> ""]

VARIABLES
  stockKey,      \* flashsale:stock:{productId}: << >> when the key is missing, <<n>> otherwise
  attempted,     \* flashsale:attempted:{productId}: set of user ids
  result,        \* flashsale:result:{userId}:{productId}: "nil" (missing), "1" or "0"
  remainingStock,\* flash_sales.remaining_stock of the sale (never updated by the pipeline)
  queue,         \* the attempt topic: sequence of published messages
  deliveries,    \* deliveries[i]: how many times queue[i] was handed to a worker
  orders,        \* the orders table: sequence of rows
  pc,            \* pc[r]: position of attemptPurchase call r
  user,          \* user[r]: userId of call r
  attemptResult, \* attemptResult[r]: what redisService.attemptPurchase returned to call r
  stockBefore,   \* stockBefore[r]: the store's counter (GET or 0) just before call r's script ran
  disturbed,     \* disturbed[r]: while call r holds a grant (not yet published or restored), another operation changed the counter
  resp,          \* resp[r]: what attemptPurchase returned
  wpc,           \* wpc[w]: position of worker w in processFlashSaleAttempt
  wmsg,          \* wmsg[w]: index in queue of the message worker w is handling (0: none)
  wexisting,     \* wexisting[w]: status of the order row the worker read ("" : none)
  faulted,       \* faulted[u]: a handling of u's message met an unexpected database error
  boot,          \* position of a replica's initializeServices
  raced,         \* an initializeStock has overwritten an existing counter
  calls,         \* direct calls of the reservation script and what they returned
  audit,         \* audit[r]: call r's purchaseAttemptRepository.create promise: "none", "pending", "ok", "failed"
  redis,         \* the Redis connection: "up", "down" (commands wait in the offline queue), "recovered"
  reads          \* answers given to status reads (GET /status/:productId, getStatus)

vars == <<stockKey, attempted, result, remainingStock, queue, deliveries, orders,
          pc, user, attemptResult, stockBefore, disturbed, resp, wpc, wmsg, wexisting, faulted,
          boot, raced, calls, audit, redis, reads>>
envVars == <<audit, redis, reads>>
redisVars == <<stockKey, attempted, result>>
reqVars == <<pc, user, attemptResult, stockBefore, disturbed, resp>>
workerVars == <<wpc, wmsg, wexisting, faulted>>
kafkaVars == <<queue, deliveries>>

\* ------------------------------------------------------- Redis primitives
\* GET stockKey or '0', as a number
StockValue(sk) == IF Len(sk) = 0 THEN 0 ELSE sk[1]

\* ATTEMPT_PURCHASE_SCRIPT without the stock test and without the negative safety net
AttemptPurchaseScript_NoStockCheck(sk, att, userId) ==
  IF userId \in att
    THEN [stock |-> sk, attempted |-> att, reply |-> <<0, StockValue(sk), 0>>]
    ELSE [stock |-> <<StockValue(sk) - 1>>, attempted |-> att \cup {userId},
          reply |-> <<1, StockValue(sk) - 1, 1>>]

\* ATTEMPT_PURCHASE_SCRIPT without the SISMEMBER gate
AttemptPurchaseScript_NoMemberCheck(sk, att, userId) ==
  LET stock == StockValue(sk) IN
  IF stock <= 0
    THEN [stock |-> sk, attempted |-> att \cup {userId}, reply |-> <<0, stock, 1>>]
    ELSE [stock |-> <<stock - 1>>, attempted |-> att \cup {userId},
          reply |-> <<1, stock - 1, 1>>]

\* ATTEMPT_PURCHASE_SCRIPT that does not mark a denied first attempt
AttemptPurchaseScript_DenyUnmarked(sk, att, userId) ==
  IF userId \in att
    THEN [stock |-> sk, attempted |-> att, reply |-> <<0, StockValue(sk), 0>>]
    ELSE LET stock == StockValue(sk) IN
         IF stock <= 0
           THEN [stock |-> sk, attempted |-> att, reply |-> <<0, stock, 1>>]
           ELSE [stock |-> <<stock - 1>>, attempted |-> att \cup {userId},
                 reply |-> <<1, stock - 1, 1>>]

\* ATTEMPT_PURCHASE_SCRIPT that takes a unit from a repeat caller too
AttemptPurchaseScript_RepeatDecrements(sk, att, userId) ==
  LET stock == StockValue(sk) IN
  IF stock <= 0
    THEN [stock |-> sk, attempted |-> att \cup {userId},
          reply |-> <<0, stock, IF userId \in att THEN 0 ELSE 1>>]
    ELSE [stock |-> <<stock - 1>>, attempted |-> att \cup {userId},
          reply |-> <<IF userId \in att THEN 0 ELSE 1, stock - 1, IF userId \in att THEN 0 ELSE 1>>]

\* ATTEMPT_PURCHASE_SCRIPT: new store state and the script's reply
\* {success, remainingStock, wasNewAttempt}
AttemptPurchaseScript(sk, att, userId) ==
  IF userId \in att
    THEN [stock |-> sk, attempted |-> att, reply |-> <<0, StockValue(sk), 0>>]
    ELSE LET stock == StockValue(sk) IN
         IF stock <= 0
           THEN [stock |-> sk, attempted |-> att \cup {userId},
                 reply |-> <<0, stock, 1>>]
           ELSE LET newStock == stock - 1 IN          \* DECR
                IF newStock < 0
                  THEN [stock |-> <<newStock + 1>>,   \* INCR
                        attempted |-> att \cup {userId},
                        reply |-> <<0, newStock + 1, 1>>]
                  ELSE [stock |-> <<newStock>>,
                        attempted |-> att \cup {userId},
                        reply |-> <<1, newStock, 1>>]

\* RedisService.attemptPurchase: the reply as an AttemptPurchaseResult
ToAttemptResult(reply) ==
  [success |-> reply[1] = 1, remainingStock |-> reply[2], wasNewAttempt |-> reply[3] = 1]

NoAttempt == [success |-> FALSE, remainingStock |-> 0, wasNewAttempt |-> FALSE]

\* RESTORE_STOCK_SCRIPT that gives nothing back
RestoreStockScript_NoOp(sk) == <<StockValue(sk)>>

\* RESTORE_STOCK_SCRIPT that takes a unit instead of giving one back
RestoreStockScript_Decrements(sk) == <<StockValue(sk) - 1>>

\* RESTORE_STOCK_SCRIPT: INCR (a missing key counts as 0)
RestoreStockScript(sk) == <<StockValue(sk) + 1>>

\* INITIALIZE_STOCK_SCRIPT: plain SET
InitializeStockScript(sk, stock) == <<stock>>

\* RedisService.stockKeyExists
StockKeyExists(sk) == Len(sk) > 0

\* RedisService.getStock reporting one less than the counter
GetStock_OffByOne(sk) == StockValue(sk) - 1

\* RedisService.getStock
GetStock(sk) == StockValue(sk)

\* GET_USER_STATUS_SCRIPT that never reports a result
GetUserStatusScript_NeverResult(att, res, userId) ==
  <<IF userId \in att THEN 1 ELSE 0, 0>>

\* GET_USER_STATUS_SCRIPT: the reply Redis sends for the Lua table
\* {hasAttempted, hasResult, resultValue}.  redis.call('GET') of a missing key
\* is the Lua boolean false (not nil), so "result ~= nil" holds for a missing
\* key as well; resultValue is then nil, and a Lua table is cut at its first
\* nil when converted to a reply.
GetUserStatusScript(att, res, userId) ==
  LET hasAttempted == IF userId \in att THEN 1 ELSE 0
      luaResult == IF res = "nil" THEN "false" ELSE res
      hasResult == IF luaResult /= "nil" THEN 1 ELSE 0
  IN  IF luaResult = "false"
        THEN <<hasAttempted, hasResult>>
        ELSE <<hasAttempted, hasResult, IF luaResult = "1" THEN 1 ELSE 0>>

\* RedisService.getUserStatus: result[2] of a two-element reply is undefined,
\* and (undefined !== null ? undefined === 1 : null) is false
ToUserStatus(reply) ==
  [hasAttempted |-> reply[1] = 1,
   hasResult |-> reply[2] = 1,
   result |-> IF Len(reply) < 3 THEN "false"
              ELSE IF reply[3] = 1 THEN "true" ELSE "false"]

\* setUserResult that writes nothing
SetUserResultScript_NoOp(res, userId, success) == res

\* SET_USER_RESULT_SCRIPT via RedisService.setUserResult: SETEX key ttl '1'/'0'
SetUserResultScript(res, userId, success) ==
  [res EXCEPT ![userId] = IF success THEN "1" ELSE "0"]

\* RedisService.getUserResult: null, true or false
GetUserResult(res, userId) ==
  IF res[userId] = "nil" THEN "null" ELSE IF res[userId] = "1" THEN "true" ELSE "false"

\* GET /status/:productId of the order routes
GetPurchaseStatus(res, userId) ==
  LET r == GetUserResult(res, userId) IN
  IF r = "null" THEN "NOT_FOUND" ELSE IF r = "true" THEN "SUCCESS" ELSE "FAILED"

\* ------------------------------------------------------------------ Init
InitWith(maxStock) ==
  /\ stockKey = << >>
  /\ attempted = {}
  /\ result = [u \in Users |-> "nil"]
  /\ remainingStock \in 0..maxStock
  /\ queue = << >>
  /\ deliveries = << >>
  /\ orders = << >>
  /\ pc = [r \in Reqs |-> "idle"]
  /\ user = [r \in Reqs |-> 0]
  /\ attemptResult = [r \in Reqs |-> NoAttempt]
  /\ stockBefore = [r \in Reqs |-> 0]
  /\ disturbed = [r \in Reqs |-> FALSE]
  /\ resp = [r \in Reqs |-> NoResp]
  /\ wpc = [w \in Workers |-> "idle"]
  /\ wmsg = [w \in Workers |-> 0]
  /\ wexisting = [w \in Workers |-> ""]
  /\ faulted = [u \in Users |-> FALSE]
  /\ boot = "findByTimeWindow"
  /\ raced = FALSE
  /\ calls = << >>
  /\ audit = [r \in Reqs |-> "none"]
  /\ redis = "up"
  /\ reads = << >>

Init == InitWith(MaxStock)

\* --------------------------------------- FlashSaleService.attemptPurchase
\* calls that hold a granted reservation not yet published or restored see the
\* counter change under them when another operation writes a new value
Disturb(newStock, r) ==
  [q \in Reqs |-> /\ q /= r
                  /\ pc[q] \in {"sendAttempt", "restoreStock"}
                  /\ disturbed[q] \/ newStock /= stockKey]

Return(r, success, message) ==
  /\ pc' = [pc EXCEPT ![r] = "done"]
  /\ resp' = [resp EXCEPT ![r] = [success |-> success, message |-> message]]

\* attemptPurchase without the test of the window's end
Start_NoEndCheck(r, userId, saleId, now) ==
  /\ pc[r] = "idle"
  /\ \A q \in Reqs : q < r => pc[q] /= "idle"
  /\ user' = [user EXCEPT ![r] = userId]
  /\ IF saleId /= SaleId THEN Return(r, FALSE, MsgNotFound)
     ELSE IF now < StartAt THEN Return(r, FALSE, MsgNotStarted)
     ELSE /\ pc' = [pc EXCEPT ![r] = "stockKeyExists"]
          /\ resp' = resp
  /\ UNCHANGED <<redisVars, remainingStock, kafkaVars, orders, attemptResult,
                 stockBefore, disturbed, workerVars, boot, raced, calls, envVars>>

\* the call arrives; findById and the window test (the sale row is read-only).
\* Calls take the slots in order.
Start(r, userId, saleId, now) ==
  /\ pc[r] = "idle"
  /\ \A q \in Reqs : q < r => pc[q] /= "idle"
  /\ user' = [user EXCEPT ![r] = userId]
  /\ IF saleId /= SaleId THEN Return(r, FALSE, MsgNotFound)
     ELSE IF now < StartAt THEN Return(r, FALSE, MsgNotStarted)
     ELSE IF now > EndAt THEN Return(r, FALSE, MsgEnded)
     ELSE /\ pc' = [pc EXCEPT ![r] = "stockKeyExists"]
          /\ resp' = resp
  /\ UNCHANGED <<redisVars, remainingStock, kafkaVars, orders, attemptResult,
                 stockBefore, disturbed, workerVars, boot, raced, calls, envVars>>

\* await redisService.stockKeyExists(productId)
CheckStockKey(r) ==
  /\ pc[r] = "stockKeyExists"
  /\ pc' = [pc EXCEPT ![r] = IF StockKeyExists(stockKey) THEN "attemptPurchase"
                                                        ELSE "initializeStock"]
  /\ UNCHANGED <<redisVars, remainingStock, kafkaVars, orders, user, attemptResult,
                 stockBefore, disturbed, resp, workerVars, boot, raced, calls, envVars>>

\* await redisService.initializeStock(productId, flashSale.remainingStock)
InitializeStock(r) ==
  /\ pc[r] = "initializeStock"
  /\ stockKey' = InitializeStockScript(stockKey, remainingStock)
  /\ disturbed' = Disturb(InitializeStockScript(stockKey, remainingStock), r)
  /\ raced' = (raced \/ StockKeyExists(stockKey))
  /\ pc' = [pc EXCEPT ![r] = "attemptPurchase"]
  /\ UNCHANGED <<attempted, result, remainingStock, kafkaVars, orders, user,
                 attemptResult, stockBefore, resp, workerVars, boot, calls, envVars>>

\* an orchestrator that publishes every first attempt, granted or not
TryReserve_DeniedPublishes(r) ==
  /\ pc[r] = "attemptPurchase"
  /\ LET out == AttemptPurchaseScript(stockKey, attempted, user[r])
         res == ToAttemptResult(out.reply)
     IN  /\ stockKey' = out.stock
         /\ attempted' = out.attempted
         /\ attemptResult' = [attemptResult EXCEPT ![r] = res]
         /\ stockBefore' = [stockBefore EXCEPT ![r] = StockValue(stockKey)]
         /\ disturbed' = Disturb(out.stock, r)
         /\ pc' = [pc EXCEPT ![r] = IF ~res.wasNewAttempt THEN "getUserStatus"
                                    ELSE "sendAttempt"]
         /\ audit' = [audit EXCEPT ![r] = IF res.wasNewAttempt /\ res.success
                                            THEN "pending" ELSE @]
  /\ UNCHANGED <<result, remainingStock, kafkaVars, orders, user, resp,
                 workerVars, boot, raced, calls, redis, reads>>

\* await redisService.attemptPurchase(userId, productId)
TryReserve(r) ==
  /\ pc[r] = "attemptPurchase"
  /\ LET out == AttemptPurchaseScript(stockKey, attempted, user[r])
         res == ToAttemptResult(out.reply)
     IN  /\ stockKey' = out.stock
         /\ attempted' = out.attempted
         /\ attemptResult' = [attemptResult EXCEPT ![r] = res]
         /\ stockBefore' = [stockBefore EXCEPT ![r] = StockValue(stockKey)]
         /\ disturbed' = Disturb(out.stock, r)
         /\ pc' = [pc EXCEPT ![r] = IF ~res.wasNewAttempt THEN "getUserStatus"
                                    ELSE IF ~res.success THEN "setUserResult"
                                    ELSE "sendAttempt"]
         \* granted: purchaseAttemptRepository.create(attempt) is started, not awaited
         /\ audit' = [audit EXCEPT ![r] = IF res.wasNewAttempt /\ res.success
                                            THEN "pending" ELSE @]
  /\ UNCHANGED <<result, remainingStock, kafkaVars, orders, user, resp,
                 workerVars, boot, raced, calls, redis, reads>>

\* the message KafkaProducer.sendAttempt publishes (key = userId)
AttemptMessage(userId) ==
  [userId |-> userId, productId |-> ProductId, saleId |-> SaleId]

\* a repeat branch that publishes the attempt again when no success is cached
CheckUserStatus_Resends(r) ==
  /\ pc[r] = "getUserStatus"
  /\ LET userStatus == ToUserStatus(GetUserStatusScript(attempted, result[user[r]], user[r]))
     IN  IF userStatus.hasResult /\ userStatus.result = "true"
           THEN /\ Return(r, TRUE, MsgSecured)
                /\ UNCHANGED kafkaVars
           ELSE /\ queue' = Append(queue, AttemptMessage(user[r]))
                /\ deliveries' = Append(deliveries, 0)
                /\ Return(r, FALSE, MsgProcessing)
  /\ UNCHANGED <<redisVars, remainingStock, orders, user, attemptResult,
                 stockBefore, disturbed, workerVars, boot, raced, calls, envVars>>

\* already attempted: await redisService.getUserStatus(userId, productId)
CheckUserStatus(r) ==
  /\ pc[r] = "getUserStatus"
  /\ LET userStatus == ToUserStatus(GetUserStatusScript(attempted, result[user[r]], user[r]))
     IN  IF userStatus.hasResult /\ userStatus.result /= "null"
           THEN IF userStatus.result = "true"
                  THEN Return(r, TRUE, MsgSecured)
                  ELSE Return(r, FALSE, MsgUnsuccessful)
           ELSE Return(r, FALSE, MsgProcessing)
  /\ UNCHANGED <<redisVars, remainingStock, kafkaVars, orders, user, attemptResult,
                 stockBefore, disturbed, workerVars, boot, raced, calls, envVars>>

\* the out-of-stock branch falling through to the rollback
DenyOutOfStock_ThenRestore(r) ==
  /\ pc[r] = "setUserResult"
  /\ result' = SetUserResultScript(result, user[r], FALSE)
  /\ pc' = [pc EXCEPT ![r] = "restoreStock"]
  /\ UNCHANGED <<stockKey, attempted, remainingStock, kafkaVars, orders, user, resp,
                 attemptResult, stockBefore, disturbed, workerVars, boot, raced, calls, envVars>>

\* the out-of-stock branch publishing an attempt message
DenyOutOfStock_Publishes(r) ==
  /\ pc[r] = "setUserResult"
  /\ result' = SetUserResultScript(result, user[r], FALSE)
  /\ queue' = Append(queue, [userId |-> user[r], productId |-> ProductId, saleId |-> SaleId])
  /\ deliveries' = Append(deliveries, 0)
  /\ Return(r, FALSE, MsgOutOfStock)
  /\ UNCHANGED <<stockKey, attempted, remainingStock, orders, user,
                 attemptResult, stockBefore, disturbed, workerVars, boot, raced, calls, envVars>>

\* out of stock: await redisService.setUserResult(userId, productId, false)
DenyOutOfStock(r) ==
  /\ pc[r] = "setUserResult"
  /\ result' = SetUserResultScript(result, user[r], FALSE)
  /\ Return(r, FALSE, MsgOutOfStock)
  /\ UNCHANGED <<stockKey, attempted, remainingStock, kafkaVars, orders, user,
                 attemptResult, stockBefore, disturbed, workerVars, boot, raced, calls, envVars>>

\* a publish followed by the rollback all the same (as in a finally block)
SendAttemptOk_ThenRestores(r) ==
  /\ pc[r] = "sendAttempt"
  /\ queue' = Append(queue, AttemptMessage(user[r]))
  /\ deliveries' = Append(deliveries, 0)
  /\ pc' = [pc EXCEPT ![r] = "restoreStock"]
  /\ UNCHANGED <<redisVars, remainingStock, orders, user, attemptResult, resp,
                 stockBefore, disturbed, workerVars, boot, raced, calls, envVars>>

\* await kafkaProducer.sendAttempt(attempt) resolves: the message is in the topic
SendAttemptOk(r) ==
  /\ pc[r] = "sendAttempt"
  /\ queue' = Append(queue, AttemptMessage(user[r]))
  /\ deliveries' = Append(deliveries, 0)
  /\ Return(r, TRUE, MsgAccepted)
  /\ disturbed' = Disturb(stockKey, r)
  /\ UNCHANGED <<redisVars, remainingStock, orders, user, attemptResult,
                 stockBefore, workerVars, boot, raced, calls, envVars>>

\* a catch block that answers without giving the unit back
SendAttemptFail_NoRestore(r) ==
  /\ pc[r] = "sendAttempt"
  /\ Return(r, FALSE, MsgRetry)
  /\ UNCHANGED <<redisVars, remainingStock, kafkaVars, orders, user, attemptResult,
                 stockBefore, disturbed, workerVars, boot, raced, calls, envVars>>

\* await kafkaProducer.sendAttempt(attempt) rejects
SendAttemptFail(r) ==
  /\ pc[r] = "sendAttempt"
  /\ pc' = [pc EXCEPT ![r] = "restoreStock"]
  /\ UNCHANGED <<redisVars, remainingStock, kafkaVars, orders, user, attemptResult,
                 stockBefore, disturbed, resp, workerVars, boot, raced, calls, envVars>>

\* a rollback that also takes the user out of the attempted set
RestoreStock_ForgetsUser(r) ==
  /\ pc[r] = "restoreStock"
  /\ stockKey' = RestoreStockScript(stockKey)
  /\ attempted' = attempted \ {user[r]}
  /\ disturbed' = Disturb(RestoreStockScript(stockKey), r)
  /\ Return(r, FALSE, MsgRetry)
  /\ UNCHANGED <<result, remainingStock, kafkaVars, orders, user,
                 attemptResult, stockBefore, workerVars, boot, raced, calls, envVars>>

\* catch: await redisService.restoreStock(productId), then the retry message
RestoreStock(r) ==
  /\ pc[r] = "restoreStock"
  /\ stockKey' = RestoreStockScript(stockKey)
  /\ disturbed' = Disturb(RestoreStockScript(stockKey), r)
  /\ Return(r, FALSE, MsgRetry)
  /\ UNCHANGED <<attempted, result, remainingStock, kafkaVars, orders, user,
                 attemptResult, stockBefore, workerVars, boot, raced, calls, envVars>>

\* the detached audit write settles: the INSERT into purchase_attempts is done ...
AuditOk(r) ==
  /\ audit[r] = "pending"
  /\ audit' = [audit EXCEPT ![r] = "ok"]
  /\ UNCHANGED <<redisVars, remainingStock, kafkaVars, orders, reqVars, workerVars,
                 boot, raced, calls, redis, reads>>

\* the audit write that fails the call it belongs to
AuditFail_Propagates(r) ==
  /\ audit[r] = "pending"
  /\ audit' = [audit EXCEPT ![r] = "failed"]
  /\ Return(r, FALSE, MsgRetry)
  /\ UNCHANGED <<redisVars, remainingStock, kafkaVars, orders, user, attemptResult,
                 stockBefore, disturbed, workerVars, boot, raced, calls, redis, reads>>

\* ... or pool.connect / the INSERT rejects: the error is logged (.catch) and dropped
AuditFail(r) ==
  /\ audit[r] = "pending"
  /\ audit' = [audit EXCEPT ![r] = "failed"]
  /\ UNCHANGED <<redisVars, remainingStock, kafkaVars, orders, reqVars, workerVars,
                 boot, raced, calls, redis, reads>>

\* ------------------------------------------------------------ orders table
OrderRow(userId, status) ==
  [saleId |-> SaleId, productId |-> ProductId, userId |-> userId, status |-> status]

\* the unique index ux_orders_sale_user (sale_id, user_id)
UniqueViolation(rows, row) ==
  \E i \in 1..Len(rows) : rows[i].saleId = row.saleId /\ rows[i].userId = row.userId

\* OrderRepository.create on a table without the unique index
OrderCreate_NoUniqueIndex(rows, row) ==
  [ok |-> TRUE, rows |-> Append(rows, row)]

\* OrderRepository.create: INSERT, or error 23505 ('Order already exists for this user')
OrderCreate(rows, row) ==
  IF UniqueViolation(rows, row)
    THEN [ok |-> FALSE, rows |-> rows]
    ELSE [ok |-> TRUE, rows |-> Append(rows, row)]

\* OrderRepository.findByUserId: status of the row of (userId, saleId), "" when there is none
FindByUserId(rows, userId, saleId) ==
  LET hits == {i \in 1..Len(rows) : rows[i].userId = userId /\ rows[i].saleId = saleId}
  IN  IF hits = {} THEN ""
      ELSE rows[CHOOSE i \in hits : \A j \in hits : i <= j].status

\* String(existingOrder.status).toUpperCase() === 'SUCCESS'
IsSuccess(status) == status = "SUCCESS"

\* ---------------------------------------------- worker: KafkaConsumer + handler
WorkerUser(w) == queue[wmsg[w]].userId

WorkerDone(w) ==
  /\ wpc' = [wpc EXCEPT ![w] = "idle"]
  /\ wmsg' = [wmsg EXCEPT ![w] = 0]
  /\ wexisting' = [wexisting EXCEPT ![w] = ""]

\* eachMessage: message i of the topic is handed to worker w (at least once;
\* a message is redelivered at most MaxDeliveries times; messages with the
\* same key are first delivered in log order)
Deliver(w, i) ==
  /\ wpc[w] = "idle"
  /\ i \in 1..Len(queue)
  /\ deliveries[i] < MaxDeliveries
  /\ \A j \in 1..(i - 1) : queue[j].userId = queue[i].userId => deliveries[j] > 0
  /\ deliveries' = [deliveries EXCEPT ![i] = @ + 1]
  /\ wmsg' = [wmsg EXCEPT ![w] = i]
  /\ wpc' = [wpc EXCEPT ![w] = IF queue[i].saleId = 0 THEN "markFailed" ELSE "findByUserId"]
  /\ UNCHANGED <<redisVars, remainingStock, queue, orders, reqVars, wexisting,
                 faulted, boot, raced, calls, envVars>>

\* const existingOrder = await orderRepository.findByUserId(userId, saleIdNum)
WorkerFind(w) ==
  /\ wpc[w] = "findByUserId"
  /\ LET st == FindByUserId(orders, WorkerUser(w), queue[wmsg[w]].saleId) IN
       /\ wexisting' = [wexisting EXCEPT ![w] = st]
       /\ wpc' = [wpc EXCEPT ![w] = IF st /= "" THEN "setExisting" ELSE "getStock"]
  /\ UNCHANGED <<redisVars, remainingStock, kafkaVars, orders, reqVars, wmsg,
                 faulted, boot, raced, calls, envVars>>

\* findByUserId or create rejects with a database error other than 23505:
\* the catch block's else branch marks the attempt failed
WorkerDbError(w) ==
  /\ wpc[w] \in {"findByUserId", "create"}
  /\ wpc' = [wpc EXCEPT ![w] = "markFailed"]
  /\ faulted' = [faulted EXCEPT ![WorkerUser(w)] = TRUE]
  /\ UNCHANGED <<redisVars, remainingStock, kafkaVars, orders, reqVars, wmsg,
                 wexisting, boot, raced, calls, envVars>>

\* a handler that caches success as soon as the stock test passes, before the insert
WorkerGetStock_CachesFirst(w) ==
  /\ wpc[w] = "getStock"
  /\ wpc' = [wpc EXCEPT ![w] = IF GetStock(stockKey) < 0 THEN "markFailed" ELSE "create"]
  /\ result' = IF GetStock(stockKey) < 0 THEN result
                ELSE SetUserResultScript(result, WorkerUser(w), TRUE)
  /\ UNCHANGED <<stockKey, attempted, remainingStock, kafkaVars, orders, reqVars, wmsg,
                 wexisting, faulted, boot, raced, calls, envVars>>

\* const stock = await redisService.getStock(productId); if (stock < 0) ...
WorkerGetStock(w) ==
  /\ wpc[w] = "getStock"
  /\ wpc' = [wpc EXCEPT ![w] = IF GetStock(stockKey) < 0 THEN "markFailed" ELSE "create"]
  /\ UNCHANGED <<redisVars, remainingStock, kafkaVars, orders, reqVars, wmsg,
                 wexisting, faulted, boot, raced, calls, envVars>>

\* await orderRepository.create({... status: SUCCESS ...})
WorkerCreate(w) ==
  /\ wpc[w] = "create"
  /\ LET out == OrderCreate(orders, OrderRow(WorkerUser(w), "SUCCESS")) IN
       /\ orders' = out.rows
       /\ wpc' = [wpc EXCEPT ![w] = IF out.ok THEN "setTrue" ELSE "recheck"]
  /\ UNCHANGED <<redisVars, remainingStock, kafkaVars, reqVars, wmsg, wexisting,
                 faulted, boot, raced, calls, envVars>>

\* await redisService.setUserResult(userId, productId, true)
WorkerSetTrue(w) ==
  /\ wpc[w] = "setTrue"
  /\ result' = SetUserResultScript(result, WorkerUser(w), TRUE)
  /\ WorkerDone(w)
  /\ UNCHANGED <<stockKey, attempted, remainingStock, kafkaVars, orders, reqVars,
                 faulted, boot, raced, calls, envVars>>

\* a catch block that treats the unique violation as a failure
WorkerRecheck_MarksFailed(w) ==
  /\ wpc[w] = "recheck"
  /\ wpc' = [wpc EXCEPT ![w] = "markFailed"]
  /\ UNCHANGED <<redisVars, remainingStock, kafkaVars, orders, reqVars, wmsg, wexisting,
                 faulted, boot, raced, calls, envVars>>

\* catch, 'already exists': re-read the order
WorkerRecheck(w) ==
  /\ wpc[w] = "recheck"
  /\ LET st == FindByUserId(orders, WorkerUser(w), queue[wmsg[w]].saleId) IN
       IF st /= ""
         THEN /\ wexisting' = [wexisting EXCEPT ![w] = st]
              /\ wpc' = [wpc EXCEPT ![w] = "setExisting"]
              /\ wmsg' = wmsg
         ELSE WorkerDone(w)
  /\ UNCHANGED <<redisVars, remainingStock, kafkaVars, orders, reqVars, faulted,
                 boot, raced, calls, envVars>>

\* the re-read rejects: checkError is logged and nothing is written
WorkerRecheckError(w) ==
  /\ wpc[w] = "recheck"
  /\ faulted' = [faulted EXCEPT ![WorkerUser(w)] = TRUE]
  /\ WorkerDone(w)
  /\ UNCHANGED <<redisVars, remainingStock, kafkaVars, orders, reqVars, boot, raced, calls, envVars>>

\* a handler that inserts its own row although it read an existing order
WorkerSetExisting_InsertsAgain(w) ==
  /\ wpc[w] = "setExisting"
  /\ orders' = Append(orders, OrderRow(WorkerUser(w), "SUCCESS"))
  /\ result' = SetUserResultScript(result, WorkerUser(w), TRUE)
  /\ WorkerDone(w)
  /\ UNCHANGED <<stockKey, attempted, remainingStock, kafkaVars, reqVars,
                 faulted, boot, raced, calls, envVars>>

\* a re-read failure that still leaves without a result
WorkerMarkFailed_Silent(w) ==
  /\ wpc[w] = "markFailed"
  /\ WorkerDone(w)
  /\ UNCHANGED <<redisVars, remainingStock, kafkaVars, orders, reqVars,
                 faulted, boot, raced, calls, envVars>>

\* await redisService.setUserResult(userId, productId, isSuccess) for the order read
WorkerSetExisting(w) ==
  /\ wpc[w] = "setExisting"
  /\ result' = SetUserResultScript(result, WorkerUser(w), IsSuccess(wexisting[w]))
  /\ WorkerDone(w)
  /\ UNCHANGED <<stockKey, attempted, remainingStock, kafkaVars, orders, reqVars,
                 faulted, boot, raced, calls, envVars>>

\* await redisService.setUserResult(userId, productId, false)
WorkerMarkFailed(w) ==
  /\ wpc[w] = "markFailed"
  /\ result' = SetUserResultScript(result, WorkerUser(w), FALSE)
  /\ WorkerDone(w)
  /\ UNCHANGED <<stockKey, attempted, remainingStock, kafkaVars, orders, reqVars,
                 faulted, boot, raced, calls, envVars>>

\* ------------------------------------------- index.ts initializeServices
\* findByTimeWindow: inWindow is whether the sale's window contains the boot time
BootFind(inWindow) ==
  /\ boot = "findByTimeWindow"
  /\ boot' = IF inWindow THEN "stockKeyExists" ELSE "listening"
  /\ UNCHANGED <<redisVars, remainingStock, kafkaVars, orders, reqVars, workerVars, raced, calls, envVars>>

BootCheckStockKey ==
  /\ boot = "stockKeyExists"
  /\ boot' = IF StockKeyExists(stockKey) THEN "listening" ELSE "initializeStock"
  /\ UNCHANGED <<redisVars, remainingStock, kafkaVars, orders, reqVars, workerVars, raced, calls, envVars>>

BootInitializeStock ==
  /\ boot = "initializeStock"
  /\ stockKey' = InitializeStockScript(stockKey, remainingStock)
  /\ disturbed' = Disturb(InitializeStockScript(stockKey, remainingStock), 0)
  /\ raced' = (raced \/ StockKeyExists(stockKey))
  /\ boot' = "listening"
  /\ UNCHANGED <<attempted, result, remainingStock, kafkaVars, orders, pc, user,
                 attemptResult, stockBefore, resp, workerVars, calls, envVars>>

\* ------------------------------------------------------------------ Spec
RequestBody ==
  \/ \E r \in Reqs : CheckStockKey(r)
  \/ \E r \in Reqs : InitializeStock(r)
  \/ \E r \in Reqs : TryReserve(r)
  \/ \E r \in Reqs : CheckUserStatus(r)
  \/ \E r \in Reqs : DenyOutOfStock(r)
  \/ \E r \in Reqs : SendAttemptOk(r)
  \/ \E r \in Reqs : SendAttemptFail(r)
  \/ \E r \in Reqs : RestoreStock(r)

WorkerStep ==
  \/ \E w \in Workers, i \in 1..Len(queue) : Deliver(w, i)
  \/ \E w \in Workers : WorkerFind(w)
  \/ \E w \in Workers : WorkerGetStock(w)
  \/ \E w \in Workers : WorkerCreate(w)
  \/ \E w \in Workers : WorkerSetTrue(w)
  \/ \E w \in Workers : WorkerRecheck(w)
  \/ \E w \in Workers : WorkerSetExisting(w)
  \/ \E w \in Workers : WorkerMarkFailed(w)

WorkerFault ==
  \/ \E w \in Workers : WorkerDbError(w)
  \/ \E w \in Workers : WorkerRecheckError(w)

BootStep ==
  \/ \E b \in BOOLEAN : BootFind(b)
  \/ BootCheckStockKey
  \/ BootInitializeStock

\* the whole pipeline, MaxReqs calls
RequestStart ==
  \E r \in 1..MaxReqs, u \in Users, s \in SaleIds, now \in Times : Start(r, u, s, now)

Next == RequestStart \/ RequestBody \/ WorkerStep \/ WorkerFault \/ BootStep

Spec == Init /\ [][Next]_vars

\* the worker's event loop runs every awaited step of a handler to its end, and
\* the consumer hands every message of the topic to a handler at least once
WorkerRun(w) ==
  \/ WorkerFind(w) \/ WorkerGetStock(w) \/ WorkerCreate(w) \/ WorkerSetTrue(w)
  \/ WorkerRecheck(w) \/ WorkerSetExisting(w) \/ WorkerMarkFailed(w)

FirstDelivery(i) ==
  /\ i \in 1..Len(queue)
  /\ deliveries[i] = 0
  /\ \E w \in Workers : Deliver(w, i)

FairSpec ==
  /\ Spec
  /\ \A w \in Workers : WF_vars(WorkerRun(w))
  /\ \A i \in 1..MaxReqs : WF_vars(FirstDelivery(i))

\* the server alone (no worker is running: ENABLE_CONSUMER=false), OrchCalls calls
InitOrch == InitWith(OrchMaxStock)

OrchStart ==
  \E r \in Reqs, u \in Users, s \in SaleIds, now \in Times : Start(r, u, s, now)

NextOrch == OrchStart \/ RequestBody \/ BootStep

SpecOrch == InitOrch /\ [][NextOrch]_vars

\* the server with its detached audit writes (purchase_attempts), MaxReqs calls
AuditStep ==
  \/ \E r \in Reqs : AuditOk(r)
  \/ \E r \in Reqs : AuditFail(r)

NextAudit == RequestStart \/ RequestBody \/ AuditStep

SpecAudit == InitOrch /\ [][NextAudit]_vars

\* ------------------------- the server when its stores fail (POST /attempt/:saleId)
\* the positions at which a call awaits a Redis command
RedisAwaits == {"stockKeyExists", "initializeStock", "attemptPurchase", "getUserStatus",
                "setUserResult", "restoreStock"}

\* a route handler whose catch block sends nothing
RouteCatch_NoResponse(r) ==
  /\ pc[r] \in RedisAwaits
  /\ pc' = [pc EXCEPT ![r] = "unanswered"]
  /\ UNCHANGED <<redisVars, remainingStock, kafkaVars, orders, user, attemptResult,
                 stockBefore, disturbed, resp, workerVars, boot, raced, calls, envVars>>

\* the awaited Redis command rejects (the script is not applied): attemptPurchase
\* throws and the route's catch block answers 500 with error.message
RouteCatch(r) ==
  /\ pc[r] \in RedisAwaits
  /\ Return(r, FALSE, MsgInternal)
  /\ UNCHANGED <<redisVars, remainingStock, kafkaVars, orders, user, attemptResult,
                 stockBefore, disturbed, workerVars, boot, raced, calls, envVars>>

\* flashSaleRepository.findById rejects (pool.connect times out, query error)
StartDbError(r, userId) ==
  /\ pc[r] = "idle"
  /\ \A q \in Reqs : q < r => pc[q] /= "idle"
  /\ user' = [user EXCEPT ![r] = userId]
  /\ Return(r, FALSE, MsgInternal)
  /\ UNCHANGED <<redisVars, remainingStock, kafkaVars, orders, attemptResult,
                 stockBefore, disturbed, workerVars, boot, raced, calls, envVars>>

\* the connection to Redis drops: commands wait in the client's offline queue
\* (maxRetriesPerRequest: null, enableOfflineQueue: true)
RedisDown ==
  /\ redis = "up"
  /\ redis' = "down"
  /\ UNCHANGED <<redisVars, remainingStock, kafkaVars, orders, reqVars, workerVars,
                 boot, raced, calls, audit, reads>>

\* retryStrategy reconnects and the queued commands are sent
RedisRecover ==
  /\ redis = "down"
  /\ redis' = "recovered"
  /\ UNCHANGED <<redisVars, remainingStock, kafkaVars, orders, reqVars, workerVars,
                 boot, raced, calls, audit, reads>>

\* the next step of call r; its Redis commands are answered only while connected
RedisStepOf(r) ==
  \/ CheckStockKey(r) \/ InitializeStock(r) \/ TryReserve(r) \/ CheckUserStatus(r)
  \/ DenyOutOfStock(r) \/ RestoreStock(r) \/ RouteCatch(r)

FailCallStep(r) ==
  \/ redis /= "down" /\ RedisStepOf(r)
  \/ SendAttemptOk(r)
  \/ SendAttemptFail(r)

FailStart ==
  \/ RequestStart
  \/ \E r \in 1..MaxReqs, u \in Users : StartDbError(r, u)

NextFail ==
  \/ FailStart
  \/ \E r \in Reqs : FailCallStep(r)
  \/ RedisDown
  \/ RedisRecover

SpecFail == Init /\ [][NextFail]_vars

\* the event loop resumes a call when its awaited operation settles; kafkajs
\* gives up after its retries; a dropped Redis connection is re-established
FairFail ==
  /\ SpecFail
  /\ \A r \in Reqs : WF_vars(FailCallStep(r))
  /\ WF_vars(RedisRecover)

\* ------------------------------------ KafkaConsumer.consumeAttempts (eachMessage)
\* a message of the topic whose value JSON.parse rejects (not from KafkaProducer)
Unparseable == [userId |-> 0, productId |-> 0, saleId |-> 0]

PublishUnparseable ==
  /\ Cardinality({i \in 1..Len(queue) : queue[i] = Unparseable}) < MaxUnparseable
  /\ queue' = Append(queue, Unparseable)
  /\ deliveries' = Append(deliveries, 0)
  /\ UNCHANGED <<redisVars, remainingStock, orders, reqVars, workerVars, boot, raced,
                 calls, envVars>>

\* an eachMessage without its try/catch: the error stops the runner
DeliverUnparseable_Crashes(w, i) ==
  /\ wpc[w] = "idle"
  /\ i \in 1..Len(queue) /\ queue[i] = Unparseable
  /\ deliveries[i] < MaxDeliveries
  /\ deliveries' = [deliveries EXCEPT ![i] = @ + 1]
  /\ wpc' = [wpc EXCEPT ![w] = "crashed"]
  /\ UNCHANGED <<redisVars, remainingStock, queue, orders, reqVars, wmsg, wexisting,
                 faulted, boot, raced, calls, envVars>>

\* JSON.parse throws inside eachMessage: the catch logs it, the handler is not
\* called and the consumer goes on
DeliverUnparseable(w, i) ==
  /\ wpc[w] = "idle"
  /\ i \in 1..Len(queue) /\ queue[i] = Unparseable
  /\ deliveries[i] < MaxDeliveries
  /\ deliveries' = [deliveries EXCEPT ![i] = @ + 1]
  /\ UNCHANGED <<redisVars, remainingStock, queue, orders, reqVars, workerVars,
                 boot, raced, calls, envVars>>

\* the handler throws: its setUserResult(false) of the catch block rejects;
\* eachMessage's catch logs the error and the consumer goes on
ConsumerCatch(w) ==
  /\ wpc[w] = "markFailed"
  /\ faulted' = [faulted EXCEPT ![WorkerUser(w)] = TRUE]
  /\ WorkerDone(w)
  /\ UNCHANGED <<redisVars, remainingStock, kafkaVars, orders, reqVars, boot, raced,
                 calls, envVars>>

ConsumerDeliver(w, i) ==
  \/ queue[i] /= Unparseable /\ Deliver(w, i)
  \/ DeliverUnparseable(w, i)

NextConsumer ==
  \/ RequestStart \/ RequestBody
  \/ PublishUnparseable
  \/ \E w \in Workers, i \in 1..Len(queue) : ConsumerDeliver(w, i)
  \/ \E w \in Workers : WorkerRun(w)
  \/ WorkerFault
  \/ \E w \in Workers : ConsumerCatch(w)

SpecConsumer == Init /\ [][NextConsumer]_vars

ConsumerFirstDelivery(i) ==
  /\ i \in 1..Len(queue)
  /\ deliveries[i] = 0
  /\ \E w \in Workers : ConsumerDeliver(w, i)

\* the runner hands every message of the topic to eachMessage, and the event
\* loop runs every awaited step of a handler
FairConsumer ==
  /\ SpecConsumer
  /\ \A w \in Workers : WF_vars(WorkerRun(w))
  /\ \A i \in 1..(MaxReqs + MaxUnparseable) : WF_vars(ConsumerFirstDelivery(i))

\* ----------------------------------------------------------- status reads
MsgStatusNotFound == "Order status not found. The purchase attempt may not have been processed yet or the key does not exist in Redis."

\* a status route that reports an absent entry as FAILED
OrderStatusResponse_AbsentIsFailed(res, userId) ==
  [code |-> 200, message |-> "",
   status |-> IF GetUserResult(res, userId) = "true" THEN "SUCCESS" ELSE "FAILED"]

\* GET /status/:productId: 400 with the not-found message when getUserResult is
\* null, else 200 with data.status
OrderStatusResponse(res, userId) ==
  LET r == GetUserResult(res, userId) IN
  IF r = "null"
    THEN [code |-> 400, status |-> "", message |-> MsgStatusNotFound]
    ELSE [code |-> 200, status |-> GetPurchaseStatus(res, userId), message |-> ""]

\* userId (from the token) reads the status of the product
StatusRead(userId) ==
  /\ Len(reads) < MaxReads
  /\ redis /= "down"
  /\ reads' = Append(reads, [userId |-> userId, answer |-> OrderStatusResponse(result, userId)])
  /\ UNCHANGED <<redisVars, remainingStock, kafkaVars, orders, reqVars, workerVars,
                 boot, raced, calls, audit, redis>>

\* the flash_sales table: the seeded sale, or no row at all
FlashSales == {[id |-> SaleId, startAt |-> StartAt, endAt |-> EndAt]}
SalesTables == {{}, FlashSales}

\* FlashSaleRepository.findActive: start_at <= now AND end_at >= now
FindActive(sales, now) == {fs \in sales : fs.startAt <= now /\ fs.endAt >= now}

\* getStatus with a window that is open at its end
GetStatus_HalfOpen(sales, now) ==
  IF sales = {} THEN "ENDED"
  ELSE LET flashSale == CHOOSE fs \in sales : TRUE IN
       IF now < flashSale.startAt THEN "UPCOMING"
       ELSE IF now >= flashSale.startAt /\ now < flashSale.endAt THEN "ACTIVE"
       ELSE "ENDED"

\* FlashSaleService.getStatus: findActive, else findMostRecent, else ENDED
GetStatus(sales, now) ==
  LET found == IF FindActive(sales, now) /= {} THEN FindActive(sales, now) ELSE sales IN
  IF found = {} THEN "ENDED"
  ELSE LET flashSale == CHOOSE fs \in found : TRUE IN
       IF now < flashSale.startAt THEN "UPCOMING"
       ELSE IF now >= flashSale.startAt /\ now <= flashSale.endAt THEN "ACTIVE"
       ELSE "ENDED"

\* a getStatus call at time now against the table sales
GetStatusCall(sales, now) ==
  /\ Len(reads) < MaxReads
  /\ reads' = Append(reads, [now |-> now, sales |-> sales, answer |-> GetStatus(sales, now)])
  /\ UNCHANGED <<redisVars, remainingStock, kafkaVars, orders, reqVars, workerVars,
                 boot, raced, calls, audit, redis>>

\* the pipeline with its users reading their order status
NextRead ==
  \/ RequestStart \/ RequestBody \/ WorkerStep \/ WorkerFault
  \/ \E u \in Users : StatusRead(u)

SpecRead == Init /\ [][NextRead]_vars

\* the server with clients polling the sale's status
NextStatus ==
  \/ RequestStart \/ RequestBody
  \/ \E sales \in SalesTables, now \in Times : GetStatusCall(sales, now)

SpecStatus == Init /\ [][NextStatus]_vars

\* ------------------------------------- the reservation primitive on its own
\* the store holds a counter N (0..PrimMaxStock) and callers run the script directly
InitPrim ==
  /\ remainingStock \in 0..PrimMaxStock
  /\ stockKey = <<remainingStock>>
  /\ attempted = {}
  /\ result = [u \in Users |-> "nil"]
  /\ queue = << >>
  /\ deliveries = << >>
  /\ orders = << >>
  /\ pc = [r \in Reqs |-> "idle"]
  /\ user = [r \in Reqs |-> 0]
  /\ attemptResult = [r \in Reqs |-> NoAttempt]
  /\ stockBefore = [r \in Reqs |-> 0]
  /\ disturbed = [r \in Reqs |-> FALSE]
  /\ resp = [r \in Reqs |-> NoResp]
  /\ wpc = [w \in Workers |-> "idle"]
  /\ wmsg = [w \in Workers |-> 0]
  /\ wexisting = [w \in Workers |-> ""]
  /\ faulted = [u \in Users |-> FALSE]
  /\ boot = "listening"
  /\ raced = FALSE
  /\ calls = << >>
  /\ audit = [r \in Reqs |-> "none"]
  /\ redis = "up"
  /\ reads = << >>

\* redisService.attemptPurchase(userId, productId) called directly
PrimTryReserve(userId) ==
  /\ Len(calls) < MaxCalls
  /\ LET out == AttemptPurchaseScript(stockKey, attempted, userId) IN
       /\ stockKey' = out.stock
       /\ attempted' = out.attempted
       /\ calls' = Append(calls, [userId |-> userId, res |-> ToAttemptResult(out.reply)])
  /\ UNCHANGED <<result, remainingStock, kafkaVars, orders, reqVars, workerVars, boot, raced, envVars>>

NextPrim == \E u \in PrimUsers : PrimTryReserve(u)

SpecPrim == InitPrim /\ [][NextPrim]_vars

\* the primitive called on a store whose counter may not have been created yet
InitPrimLazy ==
  /\ stockKey \in {<< >>} \cup {<<n>> : n \in 0..PrimMaxStock}
  /\ remainingStock = StockValue(stockKey)
  /\ attempted = {}
  /\ result = [u \in Users |-> "nil"]
  /\ queue = << >>
  /\ deliveries = << >>
  /\ orders = << >>
  /\ pc = [r \in Reqs |-> "idle"]
  /\ user = [r \in Reqs |-> 0]
  /\ attemptResult = [r \in Reqs |-> NoAttempt]
  /\ stockBefore = [r \in Reqs |-> 0]
  /\ disturbed = [r \in Reqs |-> FALSE]
  /\ resp = [r \in Reqs |-> NoResp]
  /\ wpc = [w \in Workers |-> "idle"]
  /\ wmsg = [w \in Workers |-> 0]
  /\ wexisting = [w \in Workers |-> ""]
  /\ faulted = [u \in Users |-> FALSE]
  /\ boot = "listening"
  /\ raced = FALSE
  /\ calls = << >>
  /\ audit = [r \in Reqs |-> "none"]
  /\ redis = "up"
  /\ reads = << >>

SpecPrimLazy == InitPrimLazy /\ [][NextPrim]_vars

\* ================================================================ claims
Granted(cs) == {i \in 1..Len(cs) : cs[i].res.success}

\* C1: with a counter that starts at N, at most N direct calls of the
\* reservation script return granted=true, and the counter is never below 0.
C1_NoOversellPrimitive ==
  /\ Cardinality(Granted(calls)) <= remainingStock
  /\ StockValue(stockKey) >= 0

\* C1 witness: the counter started positive, is exhausted, and a later caller was denied
C1_Witness ==
  /\ remainingStock = PrimMaxStock
  /\ Cardinality(Granted(calls)) = PrimMaxStock
  /\ StockValue(stockKey) = 0
  /\ \E i \in 1..Len(calls) : ~calls[i].res.success /\ calls[i].res.wasNewAttempt

SuccessOrders == {i \in 1..Len(orders) : orders[i].status = "SUCCESS"}

\* C2: in every state of the whole pipeline the number of SUCCESS order rows
\* of the sale is at most the sale's stock (initial_stock = remaining_stock,
\* which the pipeline never updates).
C2_NoOversellEndToEnd == Cardinality(SuccessOrders) <= remainingStock

\* C3: for one user, at most one call is answered as a first attempt, so at
\* most one is granted; every other call of that user gets wasNewAttempt = 0.
C3_AtMostOneGrantPerUser ==
  \A r1, r2 \in Reqs :
    (r1 /= r2 /\ user[r1] /= 0 /\ user[r1] = user[r2])
      => /\ ~(attemptResult[r1].success /\ attemptResult[r2].success)
         /\ ~(attemptResult[r1].wasNewAttempt /\ attemptResult[r2].wasNewAttempt)

PastReserve(r) == pc[r] \in {"getUserStatus", "setUserResult", "sendAttempt", "restoreStock"}
                  \/ (pc[r] = "done" /\ resp[r].message \notin {MsgNotFound, MsgNotStarted, MsgEnded})

\* C3 witness: one user called twice, both calls reached the store, one was granted
C3_Witness ==
  \E r1, r2 \in Reqs :
    /\ r1 /= r2 /\ user[r1] = user[r2] /\ user[r1] /= 0
    /\ PastReserve(r1) /\ PastReserve(r2)
    /\ attemptResult[r1].success
    /\ ~attemptResult[r2].wasNewAttempt

OrdersOf(userId) ==
  {i \in 1..Len(orders) : orders[i].userId = userId /\ orders[i].saleId = SaleId}

MessagesOf(userId) == {i \in 1..Len(queue) : queue[i].userId = userId}

\* some delivery of userId's message was handled and none is being handled now
Handled(userId) ==
  /\ \E i \in MessagesOf(userId) : deliveries[i] >= 1
  /\ \A w \in Workers : wmsg[w] /= 0 => queue[wmsg[w]].userId /= userId

\* C4 as claimed: once deliveries of a user's message have been handled there
\* is exactly one order row of that (saleId, userId).
C4_ExactlyOneRow ==
  \A u \in Users : Handled(u) => Cardinality(OrdersOf(u)) = 1

\* C4 amended: never two rows of one (saleId, userId); exactly one once the
\* message has been handled and no handling met an unexpected database error.
C4_AtMostOneRow ==
  \A u \in Users :
    /\ Cardinality(OrdersOf(u)) <= 1
    /\ (Handled(u) /\ ~faulted[u]) => Cardinality(OrdersOf(u)) = 1

\* C4 witness: a message was delivered MaxDeliveries times, all handled, one row
C4_Witness ==
  \E u \in Users :
    /\ Handled(u) /\ ~faulted[u]
    /\ \E i \in MessagesOf(u) : deliveries[i] = MaxDeliveries
    /\ Cardinality(OrdersOf(u)) = 1

HasSuccessOrder(userId) == \E i \in OrdersOf(userId) : orders[i].status = "SUCCESS"

\* C5: once the deliveries of a user's message have been handled, the cached
\* result is success exactly when the user's order row is SUCCESS.
C5_CacheReflectsOrder ==
  \A u \in Users : Handled(u) => (result[u] = "1" <=> HasSuccessOrder(u))

StockUnchangedAfterRestore(r) ==
  /\ StockValue(stockKey') = stockBefore[r]
  /\ user[r] \in attempted'

RestoreStepOf(r) == pc[r] = "restoreStock" /\ pc'[r] = "done"

\* C6 as claimed: after the restore of a failed enqueue the counter equals its
\* value just before that call's tryReserve, and the user is still attempted
\* (stated for runs in which no initializeStock overwrote an existing counter).
C6_RestoreGivesValueBefore ==
  [][\A r \in Reqs : (RestoreStepOf(r) /\ ~raced) => StockUnchangedAfterRestore(r)]_vars

\* C6 amended: the same, when no other operation changed the counter between
\* that call's tryReserve and its restore.
C6_RestoreUndisturbed ==
  [][\A r \in Reqs : (RestoreStepOf(r) /\ ~disturbed[r]) => StockUnchangedAfterRestore(r)]_vars

\* C6 witness: a call was granted, its enqueue failed, and the restore brought
\* the counter back to the value before the grant
C6_Witness ==
  \E r \in Reqs :
    /\ resp[r].message = MsgRetry
    /\ attemptResult[r].success
    /\ StockValue(stockKey) = stockBefore[r]
    /\ stockBefore[r] > 0
    /\ user[r] \in attempted

\* C8: a call answered with the out-of-stock message has its FAILED result in
\* the cache from then on: the status read returns FAILED.
C8_DeniedReadsFailed ==
  \A r \in Reqs :
    resp[r].message = MsgOutOfStock => GetPurchaseStatus(result, user[r]) = "FAILED"

\* C8 witness: a denied call was answered while nothing was ever published
C8_Witness ==
  \E r \in Reqs :
    /\ resp[r].message = MsgOutOfStock
    /\ attemptResult[r].wasNewAttempt /\ ~attemptResult[r].success
    /\ queue = << >>
    /\ GetPurchaseStatus(result, user[r]) = "FAILED"

\* C10: a repeat call that finds no cached result is answered with the
\* processing message (success=false) and leaves counter and attempted set alone.
C10_RepeatIsProcessing ==
  [][\A r \in Reqs :
       (pc[r] = "getUserStatus" /\ pc'[r] = "done" /\ result[user[r]] = "nil")
         => /\ resp'[r] = [success |-> FALSE, message |-> MsgProcessing]
            /\ stockKey' = stockKey
            /\ attempted' = attempted]_vars

Accepted(userId) ==
  \E r \in Reqs : user[r] = userId /\ resp[r] = [success |-> TRUE, message |-> MsgAccepted]

\* C7 as claimed: once a user's call was answered with the accepted message
\* and the finalizer has processed the user's message, the status read returns SUCCESS.
C7_AcceptedHandledReadsSuccess ==
  \A u \in Users : (Accepted(u) /\ Handled(u)) => GetPurchaseStatus(result, u) = "SUCCESS"

\* C7 amended: ... eventually returns SUCCESS, unless a handling of the user's
\* message meets an unexpected database error.
C7_AcceptedLeadsToSuccessOrFault ==
  \A u \in Users : Accepted(u) ~> (GetPurchaseStatus(result, u) = "SUCCESS" \/ faulted[u])

\* C7 witness: an accepted user whose message was handled without a database
\* error reads SUCCESS
C7_Witness ==
  \E u \in Users :
    /\ Accepted(u) /\ ~faulted[u] /\ Handled(u)
    /\ GetPurchaseStatus(result, u) = "SUCCESS"

Min(a, b) == IF a <= b THEN a ELSE b

Scenario == 1..MaxReqs

\* every call of the scenario is by a different user, inside the window, and
\* was answered with the accepted or the out-of-stock message
ScenarioAnswered ==
  /\ \A r \in Scenario : pc[r] = "done" /\ resp[r].message \in {MsgAccepted, MsgOutOfStock}
  /\ \A r1, r2 \in Scenario : r1 /= r2 => user[r1] /= user[r2]

\* every published message was handled, none with a database error
ScenarioFinalized ==
  /\ \A i \in 1..Len(queue) : deliveries[i] >= 1
  /\ \A w \in Workers : wpc[w] = "idle"
  /\ \A u \in Users : ~faulted[u]

\* C9 (initialStock = 3 and 10 users, scaled to remainingStock < MaxReqs users):
\* exactly remainingStock calls get the accepted message, the others the
\* out-of-stock message, and after finalization there are exactly
\* remainingStock SUCCESS rows.
C9_ScenarioCounts ==
  ScenarioAnswered =>
    LET expected == Min(remainingStock, MaxReqs) IN
      /\ Cardinality({r \in Scenario : resp[r].message = MsgAccepted}) = expected
      /\ Cardinality({r \in Scenario : resp[r].message = MsgOutOfStock}) = MaxReqs - expected
      /\ ScenarioFinalized => Cardinality(SuccessOrders) = expected

WindowMessages == {MsgNotFound, MsgNotStarted, MsgEnded}

\* C11: a call whose sale is not found, or that arrives before startAt or after
\* endAt, is answered success=false in its first step; that step leaves the
\* counter, the attempted set, the result cache and the topic unchanged, and
\* the call never runs a store operation, an audit write or a publish later.
C11_RejectedTouchesNothing ==
  /\ [](\A r \in Reqs :
          (pc[r] = "done" /\ resp[r].message \in WindowMessages)
            => attemptResult[r] = NoAttempt /\ audit[r] = "none" /\ ~resp[r].success)
  /\ [][\A r \in Reqs, u \in Users, s \in SaleIds, now \in Times :
          (Start(r, u, s, now) /\ (s /= SaleId \/ now < StartAt \/ now > EndAt))
            => /\ pc'[r] = "done"
               /\ resp'[r].message \in WindowMessages
               /\ ~resp'[r].success
               /\ UNCHANGED <<redisVars, kafkaVars>>]_vars

\* C11 witness: calls were rejected for a missing sale and for a closed window
\* while the store still has no key at all
C11_Witness ==
  \E r1, r2 \in Reqs :
    /\ resp[r1].message = MsgNotFound /\ resp[r2].message = MsgEnded
    /\ pc[r1] = "done" /\ pc[r2] = "done"
    /\ stockKey = << >> /\ attempted = {} /\ queue = << >>

C13_RestoreOnlyForGranted ==
  /\ [](\A r \in Reqs : pc[r] = "restoreStock"
           => attemptResult[r].success /\ attemptResult[r].wasNewAttempt)
  /\ [][\A r \in Reqs : RestoreStepOf(r)
           => /\ attemptResult[r].success /\ attemptResult[r].wasNewAttempt
              /\ queue' = queue]_vars

\* C13 witness: one call was denied (out of stock) and answered, another was
\* granted and rolled back; the denied one never restored
C13_Witness ==
  \E r1, r2 \in Reqs :
    /\ resp[r1].message = MsgOutOfStock /\ ~attemptResult[r1].success
    /\ resp[r2].message = MsgRetry /\ attemptResult[r2].success

GrantedOutcomes ==
  {[success |-> TRUE, message |-> MsgAccepted], [success |-> FALSE, message |-> MsgRetry]}

\* C14: the settling of the audit write (ok or failed) changes nothing but the
\* audit promise itself - not the call's position or answer, the counter, the
\* attempted set, the result cache or the topic - and a granted call is
\* answered by the publish alone (accepted or retry) whatever the audit did.
C14_AuditDetached ==
  /\ [](\A r \in Reqs : (pc[r] = "done" /\ attemptResult[r].success)
           => resp[r] \in GrantedOutcomes)
  /\ [][\A r \in Reqs : audit'[r] \in {"ok", "failed"} /\ audit[r] = "pending"
           => UNCHANGED <<redisVars, kafkaVars, pc, resp, attemptResult>>]_vars

\* C14 witness: two granted calls were accepted, one whose audit write failed
\* and one whose audit write has not completed
C14_Witness ==
  \E r1, r2 \in Reqs :
    /\ resp[r1].message = MsgAccepted /\ audit[r1] = "failed"
    /\ resp[r2].message = MsgAccepted /\ audit[r2] = "pending"
    /\ Len(queue) = 2

\* C15: a repeat call (wasNewAttempt = false) that finds a cached result
\* returns it - success=true with the secured message for '1', success=false
\* with the unsuccessful message for '0' - and that step publishes nothing and
\* changes neither the counter nor the attempted set; the repeat call was not
\* granted and started no audit write.
C15_RepeatSurfacesResult ==
  [][\A r \in Reqs :
       (pc[r] = "getUserStatus" /\ pc'[r] = "done" /\ result[user[r]] /= "nil")
         => /\ resp'[r] = IF result[user[r]] = "1"
                             THEN [success |-> TRUE, message |-> MsgSecured]
                             ELSE [success |-> FALSE, message |-> MsgUnsuccessful]
            /\ ~attemptResult[r].wasNewAttempt /\ ~attemptResult[r].success
            /\ audit[r] = "none"
            /\ UNCHANGED <<stockKey, attempted, result, queue>>]_vars

\* C15 witness: a user whose order was finalized called again and was told
\* the item is secured
C15_Witness ==
  \E r \in Reqs :
    /\ resp[r] = [success |-> TRUE, message |-> MsgSecured]
    /\ ~attemptResult[r].wasNewAttempt
    /\ result[user[r]] = "1"
    /\ Cardinality(MessagesOf(user[r])) = 1

AcceptedCalls == {r \in Reqs : resp[r] = [success |-> TRUE, message |-> MsgAccepted]}

\* C16: every message of the topic belongs to a call whose tryReserve was
\* granted as a first attempt and that was answered accepted; there are as
\* many messages as accepted calls; the topic only grows by the message of a
\* granted call waiting in sendAttempt.
C16_PublishOnlyForGranted ==
  /\ [](/\ \A i \in 1..Len(queue) :
             \E r \in AcceptedCalls :
               /\ user[r] = queue[i].userId
               /\ attemptResult[r].success /\ attemptResult[r].wasNewAttempt
         /\ Len(queue) = Cardinality(AcceptedCalls))
  /\ [][queue' /= queue
         => \E r \in Reqs :
              /\ pc[r] = "sendAttempt"
              /\ attemptResult[r].success /\ attemptResult[r].wasNewAttempt
              /\ queue' = Append(queue, AttemptMessage(user[r]))]_vars

\* C16 witness: a granted call published, a denied call and a repeat call were
\* answered, and the topic holds the one message
C16_Witness ==
  \E r1, r2, r3 \in Reqs :
    /\ resp[r1].message = MsgAccepted
    /\ resp[r2].message = MsgOutOfStock
    /\ pc[r3] = "done" /\ PastReserve(r3) /\ ~attemptResult[r3].wasNewAttempt
    /\ Len(queue) = 1

\* calls that hold a granted reservation that was not given back
GrantsHeld == {r \in Reqs : attemptResult[r].success /\ resp[r].message /= MsgRetry}

\* C19: in every interleaving of attemptPurchase calls, each with its own
\* stockKeyExists check and lazy initializeStock, the number of reservations
\* granted and not undone by restore is at most the sale's stock.
C19_GrantsWithinStock == Cardinality(GrantsHeld) <= remainingStock

Outcomes ==
  {MsgAccepted, MsgOutOfStock, MsgSecured, MsgUnsuccessful, MsgProcessing,
   MsgNotFound, MsgNotStarted, MsgEnded, MsgRetry, MsgInternal}

Answered(r) == pc[r] = "done" /\ resp[r].message \in Outcomes

ReadStepOf(u) == Len(reads') = Len(reads) + 1 /\ reads'[Len(reads')].userId = u

C20_WindowIsClosedInterval ==
  /\ [][Len(reads') = Len(reads) + 1
         => LET rd == reads'[Len(reads')] IN
            rd.answer = IF rd.sales = {} THEN "ENDED"
                        ELSE IF rd.now < StartAt THEN "UPCOMING"
                        ELSE IF rd.now <= EndAt THEN "ACTIVE"
                        ELSE "ENDED"]_vars
  /\ [][\A r \in Reqs, u \in Users, now \in Times :
          Start(r, u, SaleId, now)
            => (pc'[r] = "stockKeyExists" <=> GetStatus(FlashSales, now) = "ACTIVE")]_vars

\* C20 witness: getStatus answered ACTIVE at now = startAt and at now = endAt,
\* and a call of attemptPurchase passed its window test
C20_Witness ==
  /\ Len(reads) = 2
  /\ reads[1].now = StartAt /\ reads[1].answer = "ACTIVE"
  /\ reads[2].now = EndAt /\ reads[2].answer = "ACTIVE"
  /\ \E r \in Reqs : PastReserve(r)

\* C21: the attempted set only grows: a user who is a member stays a member in
\* every later state, through the calls' steps (the restore included) and the
\* finalizer's steps.
C21_AttemptedMonotonic == [][attempted \subseteq attempted']_vars

\* C21 witness: a user's grant was rolled back, another user's message was
\* finalized, and both are still members
C21_Witness ==
  \E r \in Reqs, u \in Users :
    /\ resp[r].message = MsgRetry /\ user[r] \in attempted
    /\ u /= user[r] /\ Handled(u) /\ u \in attempted

\* the direct call that the step appends
NewCall == calls'[Len(calls')]
PrimStepOf(u) == Len(calls') = Len(calls) + 1 /\ NewCall.userId = u

ExpectedUserStatus(att, res, userId) ==
  [hasAttempted |-> userId \in att,
   hasResult |-> res /= "nil",
   result |-> IF res = "nil" THEN "null" ELSE IF res = "1" THEN "true" ELSE "false"]

\* C24: whenever a call is about to read its user's status, getUserStatus
\* returns attempted = (user in the attempted set), hasResult = (the result
\* key exists), and result = null without an entry, else the cached boolean.
C24_UserStatusMatchesStore ==
  \A r \in Reqs :
    pc[r] = "getUserStatus"
      => ToUserStatus(GetUserStatusScript(attempted, result[user[r]], user[r]))
           = ExpectedUserStatus(attempted, result[user[r]], user[r])

\* C29: once a result entry holds a terminal value no step changes it to the
\* other value.
C29_TerminalResultKept ==
  [][\A u \in Users : result[u] \in {"1", "0"} => result'[u] = result[u]]_vars

\* C30: the value of an existing counter and the attempted set change only in
\* the tryReserve step or the restore step of a call; the finalizer's steps
\* change neither.
C30_OnlyPrimitivesMutate ==
  [][((StockKeyExists(stockKey) /\ stockKey' /= stockKey) \/ attempted' /= attempted)
       => \E r \in Reqs :
            \/ pc[r] = "attemptPurchase" /\ pc'[r] /= "attemptPurchase"
            \/ RestoreStepOf(r)]_vars

\* worker w ends the handling of its message in this step
HandlingEnds(w) == wpc[w] /= "idle" /\ wpc'[w] = "idle"

\* C25: a handling whose first read finds an order of (userId, saleId) adds
\* no row for that user and changes no row of the table; its one remaining step
\* writes that order's status into the user's result entry and ends the handling.
C25_ExistingOrderOnlyCached ==
  [][\A w \in Workers :
       /\ (wpc[w] = "findByUserId" /\ wpc'[w] = "setExisting")
            => orders' = orders /\ wexisting'[w] = FindByUserId(orders, WorkerUser(w), SaleId)
       /\ wpc[w] = "setExisting"
            => /\ wpc'[w] \in {"setExisting", "idle"}
               /\ \A i \in 1..Len(orders) : orders'[i] = orders[i]
               /\ \A i \in (Len(orders) + 1)..Len(orders') : orders'[i].userId /= WorkerUser(w)
               /\ HandlingEnds(w)
                    => /\ result' = [result EXCEPT ![WorkerUser(w)] =
                                        IF wexisting[w] = "SUCCESS" THEN "1" ELSE "0"]
                       /\ UNCHANGED <<stockKey, attempted, queue, orders>>]_vars

\* C25 witness: a message was delivered again after its order existed; the
\* handlings are over, there is one row and the entry reads success
C25_Witness ==
  \E u \in Users :
    /\ \E i \in MessagesOf(u) : deliveries[i] = MaxDeliveries
    /\ \A w \in Workers : wpc[w] = "idle"
    /\ Cardinality(OrdersOf(u)) = 1 /\ HasSuccessOrder(u)
    /\ result[u] = "1" /\ ~faulted[u]
    /\ Len(orders) = 1

RereadFailed(w) == wpc[w] = "recheck" /\ wpc'[w] = "idle"

C28_ConsumerKeepsRunning ==
  /\ \A i \in 1..(MaxReqs + MaxUnparseable) :
        (i <= Len(queue)) ~> (i <= Len(deliveries) /\ deliveries[i] >= 1)
  /\ \A w \in Workers : (wpc[w] /= "idle") ~> (wpc[w] = "idle")

\* C28 witness: the first message of the topic could not be parsed, a
\* handling of the user's message behind it failed, and that message was
\* handed over again and finalized
C28_Witness ==
  \E u \in Users :
    /\ Len(queue) >= 2 /\ queue[1] = Unparseable /\ deliveries[1] >= 1
    /\ faulted[u] /\ Handled(u) /\ HasSuccessOrder(u)
    /\ \A w \in Workers : wpc[w] = "idle"

\* an initializeStock of a call or of the startup completes in this step
InitializeStepOf(r) == pc[r] = "initializeStock" /\ pc'[r] /= "initializeStock"

BootInitializeStep == boot = "initializeStock" /\ boot' /= "initializeStock"

\* C31: initializeStock runs only on a missing counter key: no initializeStock
\* of a call or of the startup writes a key that exists (so a counter at 0 is
\* never set back to remainingStock).
C31_InitOnlyWhenMissing ==
  [][((\E r \in Reqs : InitializeStepOf(r)) \/ BootInitializeStep)
       => ~StockKeyExists(stockKey)]_vars

\* call r was granted, its publish failed and the unit was given back
Stranded(r) == pc[r] = "done" /\ resp[r].message = MsgRetry

\* call q passed the window test and was answered
AnsweredPastWindow(q) == pc[q] = "done" /\ resp[q].message \notin WindowMessages

\* C32: after a call's grant was rolled back its user is in the attempted set,
\* has no order and no result entry, and every other answered call of that user
\* got no reservation and the processing message.
C32_StrandedUserSeesProcessing ==
  \A r \in Reqs :
    Stranded(r) =>
      /\ user[r] \in attempted
      /\ OrdersOf(user[r]) = {}
      /\ result[user[r]] = "nil"
      /\ \A q \in Reqs \ {r} :
           (user[q] = user[r] /\ AnsweredPastWindow(q))
             => /\ ~attemptResult[q].success
                /\ resp[q] = [success |-> FALSE, message |-> MsgProcessing]

\* C33: the topic never holds two attempt messages of one user (one product):
\* over all interleavings of calls at most one message per user is published.
C33_OneMessagePerUser ==
  \A u \in Users : Cardinality(MessagesOf(u)) <= 1

\* C33 witness: one user made three calls that all reached the store and were
\* answered; exactly one message of that user is in the topic
C33_Witness ==
  \E u \in Users :
    /\ \A r \in Reqs : user[r] = u /\ AnsweredPastWindow(r)
    /\ Cardinality(MessagesOf(u)) = 1

\* local newStock = redis.call('DECR', stockKey)
DecrementedValue(sk) == StockValue(sk) - 1

\* C34: the counter is never negative, so the script's DECR of a positive
\* counter never yields a negative value (no INCR back) and a handler at its
\* getStock never reads a value below 0 (no FAILED without an order).
C34_DefensiveBranchesDead ==
  /\ StockValue(stockKey) >= 0
  /\ \A r \in Reqs :
       (pc[r] = "attemptPurchase" /\ user[r] \notin attempted /\ StockValue(stockKey) > 0)
         => DecrementedValue(stockKey) >= 0
  /\ \A w \in Workers : wpc[w] = "getStock" => GetStock(stockKey) >= 0

\* C34 witness: a handler passed its stock test while the counter was at 0
\* and another user's call had been denied for lack of stock
C34_Witness ==
  /\ stockKey = <<0>>
  /\ \E w \in Workers : wpc[w] = "create"
  /\ \E r \in Reqs : resp[r].message = MsgOutOfStock

\* C35: in every state the counter is at most the sale's remainingStock, the
\* value it was initialised from.
C35_CounterAtMostInitial == StockValue(stockKey) <= remainingStock

\* granted calls whose unit is still taken: the message was published, or the
\* call is between its tryReserve and the end of its publish / restore
GrantsOutstanding ==
  {r \in Reqs : /\ attemptResult[r].success
                /\ \/ pc[r] \in {"sendAttempt", "restoreStock"}
                   \/ pc[r] = "done" /\ resp[r].message = MsgAccepted}

\* C36: once the counter exists, remainingStock minus the counter equals the
\* number of granted reservations that were not undone by a restore.
C36_Conservation ==
  StockKeyExists(stockKey)
    => remainingStock - StockValue(stockKey) = Cardinality(GrantsOutstanding)

\* C37: whenever a user's result entry holds success, a SUCCESS order row of
\* that user exists (the entry is written only after the insert committed or
\* after an existing SUCCESS row was read).
C37_SuccessCachedImpliesOrder ==
  \A u \in Users : result[u] = "1" => HasSuccessOrder(u)

\* C37 witness: success is cached for a user while a second handler of the
\* same message has read the SUCCESS row and is about to write the entry
C37_Witness ==
  \E u \in Users, w \in Workers :
    /\ result[u] = "1" /\ HasSuccessOrder(u)
    /\ wpc[w] = "setExisting" /\ wexisting[w] = "SUCCESS" /\ WorkerUser(w) = u

\* some call of userId was granted and published its message
GrantedAndPublished(userId) ==
  /\ MessagesOf(userId) /= {}
  /\ \E r \in Reqs : /\ user[r] = userId
                     /\ attemptResult[r].success
                     /\ resp[r] = [success |-> TRUE, message |-> MsgAccepted]

GrantedReturns(r) == attemptResult[r].success /\ pc[r] /= "done" /\ pc'[r] = "done"

Quiescent ==
  /\ \A r \in Reqs : pc[r] \in {"idle", "done"}
  /\ \A i \in 1..Len(queue) : deliveries[i] >= 1
  /\ \A w \in Workers : wpc[w] = "idle"

\* C40: in a quiescent state with an initialised counter, the number of
\* SUCCESS order rows plus the counter equals the value the counter was
\* initialised from.
C40_QuiescentAccounting ==
  (Quiescent /\ StockKeyExists(stockKey))
    => Cardinality(SuccessOrders) + StockValue(stockKey) = remainingStock

====
